---- MODULE Spec2Model ----
(***************************************************************************)
(* A model of the TradingView -> Tasty Trade webhook of naikamit/buyone:   *)
(* the Signal Processor (src/trading.py, class TradingLogic) and the part  *)
(* of the Brokerage Session Client (src/tasty_api.py) it calls, and the    *)
(* webhook of the web application (src/app.py).                            *)
(*                                                                         *)
(* State.  session_token is the token the session client holds and         *)
(* session_valid says whether the brokerage still accepts it;              *)
(* last_successful_buy is the timestamp of the Signal Processor; now is    *)
(* the clock; th[t] is the frame of the operation running (or last run)    *)
(* in request thread t.                                                    *)
(*                                                                         *)
(* The call histories are lists that only grow.  A frame keeps, for each   *)
(* call, the records the call appended (log); the lists themselves,        *)
(* api_calls of src/app.py and api_calls of the session client (here       *)
(* client_calls), with the count of webhook requests received and the list *)
(* the dashboard last displayed, are the state of SpecDash, in which a     *)
(* webhook request is one step.                                            *)
(*                                                                         *)
(* Specifications.  Spec: the Signal Processor called one request at a     *)
(* time.  SpecClient: the methods of the session client called on their    *)
(* own.  SpecApp: webhook requests one at a time.  SpecConc: webhook       *)
(* requests in two threads at once.  SpecDash: webhook requests and        *)
(* renders of the dashboard.                                               *)
(*                                                                         *)
(* Granularity.  Every call of the session client is a blocking HTTP       *)
(* request, so one action is one brokerage call together with all the code *)
(* that runs after it up to the next brokerage call or the return.  The    *)
(* brokerage is the environment: each response is drawn from a small set.  *)
(*                                                                         *)
(* Conventions.  A Python None is the empty tuple and a present value x is *)
(* <<x>>.  Money is kept in half-dollars so that cash * 0.5 and the mid    *)
(* price (bid + ask) / 2 are exact; a position quantity is kept in         *)
(* half-shares so that int(float(q)) truncates.  Time is in hours.         *)
(***************************************************************************)
EXTENDS Integers, Sequences, FiniteSets, TLC

VARIABLES session_token, session_valid, last_successful_buy, now, th,
          api_calls, client_calls, received, displayed

\* the call histories and what the dashboard last displayed
hist == <<api_calls, client_calls, received, displayed>>

vars == <<session_token, session_valid, last_successful_buy, now, th,
          api_calls, client_calls, received, displayed>>

None == <<>>
Some(x) == <<x>>

(***************************************************************************)
(* Bounds of the model.                                                    *)
(***************************************************************************)
\* the largest cash-available-to-withdraw the brokerage reports, in dollars
MaxCash == 8
\* the largest number of positions in one positions response
MaxPositions == 2
\* the clock stops advancing after this many hours
MaxNow == 23
\* the most webhook requests received
MaxRequests == 2
\* the most records the session client appends while one request is served
MaxCallsPerRequest == 2
\* the dashboard is not rendered once api_calls holds more records than this
MaxHistory == 6

\* the request threads
Threads == {1, 2}

(***************************************************************************)
(* Program constants.                                                      *)
(***************************************************************************)
\* timedelta(hours=12)
cooldown_period == 12

LongProxy == "MSTU"
ShortProxy == "MSTZ"
\* the symbol list process_signal passes to close_positions in the cooldown
CooldownSymbols == <<"MSTU", "MSTZ">>

(***************************************************************************)
(* The environment: what the callers send and the brokerage answers.       *)
(***************************************************************************)
Signals == {"long", "short", "hold"}

\* advancing the clock by 11 or 12 hours puts consecutive signals on both
\* sides of the cooldown boundary
TickSteps == {cooldown_period - 1, cooldown_period}

\* cash-available-to-withdraw, in dollars
CashValues == {0, 3, MaxCash}

\* the items of a positions response: quantity in half-shares (2.0, 2.5,
\* 0.5 and 3.0 shares)
PositionItems ==
    { [symbol |-> "MSTU", quantity |-> 4, direction |-> "Long"],
      [symbol |-> "MSTZ", quantity |-> 5, direction |-> "Long"],
      [symbol |-> "MSTZ", quantity |-> 1, direction |-> "Short"],
      [symbol |-> "AAPL", quantity |-> 6, direction |-> "Long"] }

RECURSIVE SeqsUpTo(_, _)
SeqsUpTo(S, n) ==
    IF n = 0 THEN { <<>> }
    ELSE LET shorter == SeqsUpTo(S, n - 1)
         IN  shorter \cup { Append(s, x) : s \in { q \in shorter : Len(q) = n - 1 }, x \in S }

PositionLists == SeqsUpTo(PositionItems, MaxPositions)

\* a quotes response: the request failed, the body has no 'data', its
\* items are empty, or the first item carries bid and ask, only last, or
\* none of them (dollars)
QuoteResponses ==
    { [kind |-> "error",  bid |-> None, ask |-> None, last |-> None],
      [kind |-> "nodata", bid |-> None, ask |-> None, last |-> None],
      [kind |-> "noitems", bid |-> None, ask |-> None, last |-> None],
      [kind |-> "ok", bid |-> Some(1), ask |-> Some(1), last |-> Some(2)],
      [kind |-> "ok", bid |-> Some(1), ask |-> Some(2), last |-> None],
      [kind |-> "ok", bid |-> None,    ask |-> Some(1), last |-> Some(2)],
      [kind |-> "ok", bid |-> Some(0), ask |-> Some(0), last |-> None],
      [kind |-> "ok", bid |-> None,    ask |-> None,    last |-> None] }

\* the filters close_positions is called with
SymbolFilters == { None, Some(<<>>), Some(<<"MSTZ">>), Some(CooldownSymbols) }

(***************************************************************************)
(* src/tasty_api.py: the session client.  A method takes what the          *)
(* brokerage answers and gives its outcome: the value it returns, whether  *)
(* a request was sent, and log, the records it appends to api_calls (the   *)
(* status of each).  The brokerage answers a request made with a token it  *)
(* no longer accepts with 401.                                             *)
(***************************************************************************)
\* mutant: the methods do not test the session token
Authenticated_Always(token) == TRUE

\* `if not self.session_token: return None`
Authenticated(token) == token # None

\* the return before any request
NotSent(value) ==
    [value |-> value, ok |-> FALSE, sent |-> FALSE, http |-> "none", body |-> "",
     log |-> <<>>]

\* the request raised (transport failure, raise_for_status, json()): the
\* except clause records the error and returns None
Failed(value, http) ==
    [value |-> value, ok |-> FALSE, sent |-> TRUE, http |-> http, body |-> "",
     log |-> <<"error">>]

\* a 2xx response was recorded and the expected field is then missing from
\* its body: the KeyError or IndexError reaches the except clause, which
\* records the call again
Lacking(value) ==
    [value |-> value, ok |-> FALSE, sent |-> TRUE, http |-> "2xx", body |-> "lacking",
     log |-> <<"success", "error">>]

\* a 2xx response with the expected fields
Answered(value, ok) ==
    [value |-> value, ok |-> ok, sent |-> TRUE, http |-> "2xx", body |-> "full",
     log |-> <<"success">>]

\* get_account_balance: the balance is its cash-available-to-withdraw, in
\* half-dollars
get_account_balance(token, valid) ==
    IF ~Authenticated(token) THEN { NotSent(None) }
    ELSE IF ~valid THEN { Failed(None, "401") }
    ELSE { Failed(None, "error"), Lacking(None) }
         \cup { Answered(Some(2 * c), TRUE) : c \in CashValues }

\* get_positions: the list of items (possibly empty)
get_positions(token, valid) ==
    IF ~Authenticated(token) THEN { NotSent(None) }
    ELSE IF ~valid THEN { Failed(None, "401") }
    ELSE { Failed(None, "error"), Lacking(None) }
         \cup { Answered(Some(p), TRUE) : p \in PositionLists }

\* the price get_stock_price derives from a quotes response, in half-dollars
QuotePrice(q) ==
    IF q.kind # "ok" THEN None
    ELSE IF q.bid # None /\ q.ask # None THEN Some(q.bid[1] + q.ask[1])
    ELSE IF q.last # None THEN Some(2 * q.last[1])
    ELSE None

\* what get_stock_price makes of a quotes response
QuoteOutcome(q) ==
    IF q.kind = "error" THEN Failed(None, "error")
    ELSE IF q.kind = "noitems" THEN Lacking(None)
    ELSE IF q.kind = "nodata"
    THEN [Answered(None, FALSE) EXCEPT !.body = "lacking"]
    ELSE Answered(QuotePrice(q), QuotePrice(q) # None)

get_stock_price(token, valid) ==
    IF ~Authenticated(token) THEN { NotSent(None) }
    ELSE IF ~valid THEN { Failed(None, "401") }
    ELSE { QuoteOutcome(q) : q \in QuoteResponses }

\* place_order: the order data (TRUE), or None (FALSE) when the brokerage
\* rejects the order or the request fails; the orders endpoint is taken to
\* answer a 2xx with data.order in its body
place_order(token, valid) ==
    IF ~Authenticated(token) THEN { NotSent(FALSE) }
    ELSE IF ~valid THEN { Failed(FALSE, "401") }
    ELSE { Failed(FALSE, "error"), Answered(TRUE, TRUE) }

\* mutant: every position is closed by selling
ClosingAction_AlwaysSell(direction) == "Sell to Close"

\* close_position: 'Sell to Close' if direction == 'Long' else 'Buy to Close'
ClosingAction(direction) ==
    IF direction = "Long" THEN "Sell to Close" ELSE "Buy to Close"

\* what the sessions endpoint answers: no response at all, or a status and
\* a body that carries data.session-token, lacks it, carries an error, is
\* not JSON, or is JSON but no object
LoginResponses ==
    { [http |-> "error", body |-> ""] }
    \cup [http : {"2xx", "non2xx"},
          body : {"token", "no_token", "api_error", "not_json", "not_object"}]

\* `'data' in response_data and 'session-token' in response_data['data']`,
\* the only test login makes on a response it could parse
LoginStoresToken(resp) == resp.http # "error" /\ resp.body = "token"

\* login: True and a success record when the token is stored, else False
\* and an error record
login(resp) ==
    [value |-> IF LoginStoresToken(resp) THEN Some("token") ELSE None,
     ok |-> LoginStoresToken(resp), sent |-> TRUE, http |-> resp.http,
     body |-> resp.body,
     log |-> IF LoginStoresToken(resp) THEN <<"success">> ELSE <<"error">>]

(***************************************************************************)
(* src/trading.py: pure parts of TradingLogic.                             *)
(***************************************************************************)
\* int(float(position['quantity'])), the quantity being in half-shares
IntOfFloat(q) == q \div 2

\* mutant: the validation lets every signal through
ValidSignal_NoCheck(signal) == TRUE

\* `signal not in ['long', 'short']`, negated
ValidSignal(signal) == signal \in {"long", "short"}

\* mutant: the cooldown still holds at exactly 12 hours
InCooldown_Inclusive(last_buy, clock) ==
    /\ last_buy # None
    /\ clock - last_buy[1] <= cooldown_period

\* mutant: the comparison with the cooldown period is reversed
InCooldown_Reversed(last_buy, clock) ==
    /\ last_buy # None
    /\ clock - last_buy[1] > cooldown_period

\* `self.last_successful_buy` is set and now - last_successful_buy < 12 hours
InCooldown(last_buy, clock) ==
    /\ last_buy # None
    /\ clock - last_buy[1] < cooldown_period

\* mutant: the branch buys the symbol whose positions it closes
TargetSymbol_Opposite(branch) == IF branch = "long" THEN ShortProxy ELSE LongProxy

\* mutant: the closes go to the symbol the branch buys
OppositeSymbol_Same(branch) == IF branch = "long" THEN LongProxy ELSE ShortProxy

\* the symbol a branch buys and the symbol whose positions it closes
TargetSymbol(branch) == IF branch = "long" THEN LongProxy ELSE ShortProxy
OppositeSymbol(branch) == IF branch = "long" THEN ShortProxy ELSE LongProxy

\* `if not balance`
BalanceMissing(balance) == balance = None

\* mutant: a failed positions fetch is taken for an empty list
PositionsMissing_Defaulted(positions) == FALSE

\* `if positions is None`
PositionsMissing(positions) == positions = None

\* the list a fetch returned
Fetched(resp) == IF resp = None THEN <<>> ELSE resp[1]

\* mutant: the 50% throttle is forgotten
MaxCashToUse_AllCash(cash_available, positions) == cash_available

\* max_cash = cash_available if positions else cash_available * 0.5
MaxCashToUse(cash_available, positions) ==
    IF positions # <<>> THEN cash_available ELSE cash_available \div 2

\* `not price or price <= 0`
PriceInvalid(price) == price = None \/ price[1] <= 0

\* theoretical_max = int(max_cash / price)
TheoreticalMax(max_cash, price) == max_cash \div price

\* low = 1; high = theoretical_max; max_successful = 0
SearchInit(theoretical_max) ==
    [low |-> 1, high |-> theoretical_max, max_successful |-> 0]

\* mutant: the search probes the low end of the range
Mid_Low(low, high) == low

\* mid = (low + high) // 2
Mid(low, high) == (low + high) \div 2

\* mutant: a rejected order ends the search
SearchStep_StopsOnReject(s, order_result) ==
    LET mid == (s.low + s.high) \div 2
    IN  IF order_result
        THEN [low |-> mid + 1, high |-> s.high, max_successful |-> mid]
        ELSE [low |-> s.low, high |-> s.low - 1, max_successful |-> s.max_successful]

\* mutant: the two branches of the search move the wrong bound
SearchStep_Swapped(s, order_result) ==
    LET mid == (s.low + s.high) \div 2
    IN  IF order_result
        THEN [low |-> s.low, high |-> mid - 1, max_successful |-> mid]
        ELSE [low |-> mid + 1, high |-> s.high, max_successful |-> s.max_successful]

\* one iteration of the binary search after the order for mid came back
SearchStep(s, order_result) ==
    LET mid == Mid(s.low, s.high)
    IN  IF order_result
        THEN [low |-> mid + 1, high |-> s.high, max_successful |-> mid]
        ELSE [low |-> s.low, high |-> mid - 1, max_successful |-> s.max_successful]

\* `while low <= high`
SearchRunning(s) == s.low <= s.high

\* mutant: whatever the search returned passes for a purchase
BuySucceeded_Always(quantity) == TRUE

\* mutant: a quantity of 0 passes for a purchase
BuySucceeded_AllowsZero(quantity) == quantity >= 0

\* `if quantity <= 0`, negated: the buy succeeded
BuySucceeded(quantity) == quantity > 0

\* [pos for pos in positions if pos['symbol'] == opposite]
OppositePositions(positions, branch) ==
    SelectSeq(positions, LAMBDA pos : pos.symbol = OppositeSymbol(branch))

\* mutant: an empty or missing filter matches nothing
MatchesFilter_NoDefault(symbols, symbol) ==
    /\ symbols # None
    /\ \E i \in 1..Len(symbols[1]) : symbols[1][i] = symbol

\* mutant: the symbol filter is ignored
MatchesFilter_All(symbols, symbol) == TRUE

\* `not symbols or symbol in symbols`
MatchesFilter(symbols, symbol) ==
    \/ symbols = None
    \/ symbols[1] = <<>>
    \/ \E i \in 1..Len(symbols[1]) : symbols[1][i] = symbol

\* the positions of the close_positions loop from the next one that is
\* closed on: positions outside the filter are passed over without a call
RECURSIVE SkipUnmatched(_, _)
SkipUnmatched(symbols, positions) ==
    IF positions = <<>> THEN <<>>
    ELSE IF MatchesFilter(symbols, Head(positions).symbol) THEN positions
    ELSE SkipUnmatched(symbols, Tail(positions))

\* mutant: the symbol is appended whatever the close returned
AppendClosed_Always(closed_positions, symbol, result) == Append(closed_positions, symbol)

\* `if result: closed_positions.append(symbol)`
AppendClosed(closed_positions, symbol, result) ==
    IF result THEN Append(closed_positions, symbol) ELSE closed_positions

(***************************************************************************)
(* Results (the dicts the operations return).  The text of a message that  *)
(* embeds values is kept without them; the values are in the other fields. *)
(***************************************************************************)
ErrorResult(msg) ==
    [status |-> "error", message |-> msg, quantity |-> None,
     symbol |-> None, closed_positions |-> None]

BoughtResult(quantity, symbol) ==
    [status |-> "success", message |-> "Bought shares",
     quantity |-> Some(quantity), symbol |-> Some(symbol), closed_positions |-> None]

\* the result of close_positions once the positions were fetched
NoPositionsResult ==
    [status |-> "success", message |-> "No positions to close", quantity |-> None,
     symbol |-> None, closed_positions |-> None]

\* the return at the end of close_positions
ClosedResult(closed_positions) ==
    IF closed_positions # <<>>
    THEN [status |-> "success", message |-> "Closed positions", quantity |-> None,
          symbol |-> None, closed_positions |-> Some(closed_positions)]
    ELSE [status |-> "success", message |-> "No matching positions found to close",
          quantity |-> None, symbol |-> None, closed_positions |-> None]

FailedToBuy(branch) ==
    IF branch = "long" THEN "Failed to buy MSTU" ELSE "Failed to buy MSTZ"

(***************************************************************************)
(* The record of one call of the session client made by an operation: the  *)
(* arguments, the token at the time of the call and the outcome.           *)
(***************************************************************************)
Call(method, token, symbol, quantity, action, r) ==
    [method |-> method, token |-> token, sent |-> r.sent, symbol |-> symbol,
     quantity |-> quantity, action |-> action, ok |-> r.ok, http |-> r.http,
     body |-> r.body, log |-> r.log]

(***************************************************************************)
(* The frame of one operation in a request thread: its position, the       *)
(* locals of the code, the calls it made, and its result.                  *)
(***************************************************************************)
IdleFrame ==
    [pc |-> "idle", op |-> "none", entry |-> "", signal |-> "", symbols |-> None,
     branch |-> "", cash_available |-> 0, positions |-> <<>>, max_cash |-> 0,
     price |-> None, search |-> SearchInit(0), theoretical_max |-> 0,
     quantity |-> 0, todo |-> <<>>, closed_positions |-> <<>>, calls |-> <<>>,
     login |-> None, result |-> None, entry_last_buy |-> None, entry_now |-> 0,
     args |-> None]

Return(f, res) == [f EXCEPT !.pc = "idle", !.result = Some(res)]

Init ==
    /\ session_token = None
    /\ session_valid = FALSE
    /\ last_successful_buy = None
    /\ now = 0
    /\ th = [t \in Threads |-> IdleFrame]
    /\ api_calls = <<>>
    /\ client_calls = <<>>
    /\ received = 0
    /\ displayed = None

\* the request threads of the sequential specification: one request at a
\* time
Sequential == {1}

\* mutant: a request waits until no other request is being processed
RequestAdmitted_Locked(frames, t) == \A u \in DOMAIN frames : frames[u].pc = "idle"

\* a request thread takes a request whenever it is idle: the handlers hold
\* no lock
RequestAdmitted(frames, t) == frames[t].pc = "idle"

(***************************************************************************)
(* The brokerage ends the session: the stored token is no longer accepted. *)
(***************************************************************************)
Expire ==
    /\ session_token # None
    /\ session_valid
    /\ session_valid' = FALSE
    /\ UNCHANGED <<session_token, last_successful_buy, now, th>>
    /\ UNCHANGED hist

\* mutant: login stores a token whatever the answer
TokenAfter_Always(r, token) == Some("token")

\* the token and the brokerage's acceptance of it after login answered r
TokenAfter(r, token) == IF r.ok THEN r.value ELSE token
ValidAfter(r, valid) == IF r.ok THEN TRUE ELSE valid

(***************************************************************************)
(* src/app.py initialize_app: the login before the first request.          *)
(***************************************************************************)
Login(t) ==
    /\ \A u \in Threads : th[u].op = "none"
    /\ \E resp \in LoginResponses :
         LET r == login(resp)
         IN  /\ session_token' = TokenAfter(r, session_token)
             /\ session_valid' = ValidAfter(r, session_valid)
             /\ th' = [th EXCEPT ![t] =
                    [IdleFrame EXCEPT !.op = "login", !.entry = "startup",
                        !.login = Some(Call("login", session_token, "", 0, "", r))]]
    /\ UNCHANGED <<last_successful_buy, now>>
    /\ UNCHANGED hist

(***************************************************************************)
(* TastyTradeAPI.login called by a client of the class.                    *)
(***************************************************************************)
ClientLogin(t) ==
    /\ RequestAdmitted(th, t)
    /\ \E resp \in LoginResponses :
         LET r == login(resp)
         IN  /\ session_token' = TokenAfter(r, session_token)
             /\ session_valid' = ValidAfter(r, session_valid)
             /\ th' = [th EXCEPT ![t] =
                    [IdleFrame EXCEPT !.op = "login", !.entry = "direct",
                        !.login = Some(Call("login", session_token, "", 0, "", r))]]
    /\ UNCHANGED <<last_successful_buy, now>>
    /\ UNCHANGED hist

(***************************************************************************)
(* datetime.now() advances between requests.                               *)
(***************************************************************************)
Tick ==
    /\ \A t \in Threads : th[t].pc = "idle"
    /\ \E d \in TickSteps :
         /\ now + d <= MaxNow
         /\ now' = now + d
    /\ UNCHANGED <<session_token, session_valid, last_successful_buy, th>>
    /\ UNCHANGED hist

(***************************************************************************)
(* TradingLogic.process_signal, up to its first brokerage call, entered in *)
(* frame f with the timestamp last_buy at the time clock.                  *)
(***************************************************************************)
EnterProcessSignal(f, last_buy, clock) ==
    LET g == [f EXCEPT !.op = "process_signal", !.entry_last_buy = last_buy,
                       !.entry_now = clock]
    IN  IF ~ValidSignal(g.signal)
        THEN Return(g, ErrorResult("Invalid signal"))
        ELSE IF InCooldown(last_buy, clock)
        THEN [g EXCEPT !.pc = "cp_get_positions", !.symbols = Some(CooldownSymbols)]
        ELSE [g EXCEPT !.pc = "get_account_balance", !.branch = g.signal]

(***************************************************************************)
(* TradingLogic.process_signal called by a client of the class.            *)
(***************************************************************************)
ProcessSignal(t) ==
    /\ RequestAdmitted(th, t)
    /\ \E signal \in Signals :
         th' = [th EXCEPT ![t] =
                 EnterProcessSignal(
                     [IdleFrame EXCEPT !.entry = "direct", !.signal = signal],
                     last_successful_buy, now)]
    /\ UNCHANGED <<session_token, session_valid, last_successful_buy, now>>
    /\ UNCHANGED hist

\* mutant: the webhook goes on after a failed login
LoginFailed_Ignored(login_result) == FALSE

\* `if not login_result`
LoginFailed(login_result) == ~login_result

\* `if not tasty_api.session_token`
NotLoggedIn(token) == token = None

(***************************************************************************)
(* src/app.py webhook, up to its first brokerage call: the signal of the   *)
(* request ("" when it has none), the login if no token is stored, else    *)
(* process_signal.                                                         *)
(***************************************************************************)
Webhook(t) ==
    /\ RequestAdmitted(th, t)
    /\ \E signal \in Signals \cup {""} :
         LET f == [IdleFrame EXCEPT !.op = "webhook", !.entry = "webhook",
                                    !.signal = signal]
         IN  th' = [th EXCEPT ![t] =
                 IF signal = ""
                 THEN Return(f, ErrorResult("No signal provided"))
                 ELSE IF NotLoggedIn(session_token)
                 THEN [f EXCEPT !.pc = "wh_login"]
                 ELSE EnterProcessSignal(f, last_successful_buy, now)]
    /\ UNCHANGED <<session_token, session_valid, last_successful_buy, now>>
    /\ UNCHANGED hist

(***************************************************************************)
(* src/app.py webhook: the login, then process_signal if it succeeded.     *)
(***************************************************************************)
WebhookLogin(t) ==
    /\ th[t].pc = "wh_login"
    /\ \E resp \in LoginResponses :
         LET r == login(resp)
             f == [th[t] EXCEPT
                      !.login = Some(Call("login", session_token, "", 0, "", r))]
         IN  /\ session_token' = TokenAfter(r, session_token)
             /\ session_valid' = ValidAfter(r, session_valid)
             /\ th' = [th EXCEPT ![t] =
                    IF LoginFailed(r.ok)
                    THEN Return(f, ErrorResult("Authentication failed"))
                    ELSE EnterProcessSignal(f, last_successful_buy, now)]
    /\ UNCHANGED <<last_successful_buy, now>>
    /\ UNCHANGED hist

\* close_position: the order it hands to place_order
ClosePositionOrder(symbol, quantity, direction) ==
    [symbol |-> symbol, quantity |-> quantity, action |-> ClosingAction(direction)]

\* the methods of the session client that need a token
ClientMethods ==
    { "get_account_balance", "get_positions", "get_stock_price", "place_order",
      "close_position" }

\* the directions close_position is called with
Directions == { "Long", "Short", "long" }

\* what place_order returns: the order data or None
OrderData(value) == IF value THEN Some("order") ELSE None

(***************************************************************************)
(* A method of the session client called by a client of the class:         *)
(* get_account_balance, get_positions, get_stock_price, place_order (a     *)
(* 'Buy to Open' order) or close_position, which derives the action and    *)
(* calls place_order.  The result is what the method returns.              *)
(***************************************************************************)
ClientCall(t) ==
    /\ RequestAdmitted(th, t)
    /\ \E method \in ClientMethods, symbol \in {LongProxy, ShortProxy},
          quantity \in 1..2, direction \in Directions :
         LET order == method \in {"place_order", "close_position"}
             outcomes ==
                 IF method = "get_account_balance"
                 THEN get_account_balance(session_token, session_valid)
                 ELSE IF method = "get_positions"
                 THEN get_positions(session_token, session_valid)
                 ELSE IF method = "get_stock_price"
                 THEN get_stock_price(session_token, session_valid)
                 ELSE { [r EXCEPT !.value = OrderData(r.value)] :
                          r \in place_order(session_token, session_valid) }
             sent_order ==
                 IF method = "close_position"
                 THEN ClosePositionOrder(symbol, quantity, direction)
                 ELSE IF method = "place_order"
                 THEN [symbol |-> symbol, quantity |-> quantity,
                       action |-> "Buy to Open"]
                 ELSE [symbol |-> IF method = "get_stock_price" THEN symbol ELSE "",
                       quantity |-> 0, action |-> ""]
             f == [IdleFrame EXCEPT
                      !.op = "client", !.entry = method,
                      !.signal = IF method = "close_position" THEN direction ELSE "",
                      !.args = Some([symbol |-> sent_order.symbol,
                                     quantity |-> IF order THEN quantity ELSE 0,
                                     direction |-> IF method = "close_position"
                                                   THEN direction ELSE ""])]
         IN  \E r \in outcomes :
               th' = [th EXCEPT ![t] =
                   Return([f EXCEPT !.calls = <<
                       Call(IF order THEN "place_order" ELSE method, session_token,
                            sent_order.symbol, sent_order.quantity,
                            sent_order.action, r) >>], r.value)]
    /\ UNCHANGED <<session_token, session_valid, last_successful_buy, now>>
    /\ UNCHANGED hist

(***************************************************************************)
(* process_long_signal / process_short_signal: the balance fetch.          *)
(***************************************************************************)
GetAccountBalance(t) ==
    /\ th[t].pc = "get_account_balance"
    /\ \E r \in get_account_balance(session_token, session_valid) :
         LET balance == r.value
             f == [th[t] EXCEPT !.calls = Append(@,
                      Call("get_account_balance", session_token, "", 0, "", r))]
         IN  th' = [th EXCEPT ![t] =
                 IF BalanceMissing(balance)
                 THEN Return(f, ErrorResult("Failed to get account balance"))
                 ELSE [f EXCEPT !.pc = "get_positions",
                                !.cash_available = balance[1]]]
    /\ UNCHANGED <<session_token, session_valid, last_successful_buy, now>>
    /\ UNCHANGED hist

(***************************************************************************)
(* process_long_signal / process_short_signal: the positions fetch and the *)
(* choice of the cash to use.                                              *)
(***************************************************************************)
GetPositions(t) ==
    /\ th[t].pc = "get_positions"
    /\ \E r \in get_positions(session_token, session_valid) :
         LET positions == r.value
             f == [th[t] EXCEPT !.calls = Append(@,
                      Call("get_positions", session_token, "", 0, "", r))]
         IN  th' = [th EXCEPT ![t] =
                 IF PositionsMissing(positions)
                 THEN Return(f, ErrorResult("Failed to get positions"))
                 ELSE [f EXCEPT !.pc = "get_stock_price",
                                !.positions = Fetched(positions),
                                !.max_cash = MaxCashToUse(f.cash_available,
                                                          Fetched(positions))]]
    /\ UNCHANGED <<session_token, session_valid, last_successful_buy, now>>
    /\ UNCHANGED hist

(***************************************************************************)
(* The end of a branch once every close was attempted: the success result  *)
(* (the timestamp is written by the action that takes this step).          *)
(***************************************************************************)
Bought(f) == Return(f, BoughtResult(f.quantity, TargetSymbol(f.branch)))

(***************************************************************************)
(* process_long_signal / process_short_signal after                        *)
(* binary_search_max_quantity returned quantity: the error if nothing was  *)
(* bought, else the closes of the opposite positions if there are any,     *)
(* else the end of the branch.                                             *)
(***************************************************************************)
AfterSearch(f, quantity) ==
    LET g == [f EXCEPT !.quantity = quantity]
        todo == IF g.positions # <<>> THEN OppositePositions(g.positions, g.branch)
                ELSE <<>>
    IN  IF ~BuySucceeded(quantity)
        THEN Return(g, ErrorResult(FailedToBuy(g.branch)))
        ELSE IF todo # <<>>
        THEN [g EXCEPT !.pc = "close_position", !.todo = todo]
        ELSE Bought(g)

\* the frame has reached `self.last_successful_buy = datetime.now()`
Stamped(f) == f.pc = "idle" /\ f.result # None /\ f.result[1].status = "success"

(***************************************************************************)
(* binary_search_max_quantity: the quote, the theoretical maximum and the  *)
(* bounds of the search; on a return of 0 the branch goes on at once.      *)
(***************************************************************************)
GetStockPrice(t) ==
    /\ th[t].pc = "get_stock_price"
    /\ \E r \in get_stock_price(session_token, session_valid) :
         LET price == r.value
             f == [th[t] EXCEPT
                      !.calls = Append(@,
                          Call("get_stock_price", session_token,
                               TargetSymbol(th[t].branch), 0, "", r)),
                      !.price = price]
             m == IF PriceInvalid(price) THEN 0
                  ELSE TheoreticalMax(f.max_cash, price[1])
             g == IF PriceInvalid(price) \/ m <= 0
                  THEN AfterSearch(f, 0)
                  ELSE [f EXCEPT !.pc = "place_order", !.theoretical_max = m,
                                 !.search = SearchInit(m)]
         IN  /\ th' = [th EXCEPT ![t] = g]
             /\ last_successful_buy' =
                  IF Stamped(g) THEN Some(now) ELSE last_successful_buy
    /\ UNCHANGED <<session_token, session_valid, now>>
    /\ UNCHANGED hist

(***************************************************************************)
(* binary_search_max_quantity: one iteration of the loop, a 'Buy to Open'  *)
(* order for mid; when the loop ends the branch goes on.                   *)
(***************************************************************************)
PlaceBuyOrder(t) ==
    /\ th[t].pc = "place_order"
    /\ \E r \in place_order(session_token, session_valid) :
         LET order_result == r.value
             s == SearchStep(th[t].search, order_result)
             f == [th[t] EXCEPT
                      !.calls = Append(@,
                          Call("place_order", session_token,
                               TargetSymbol(th[t].branch),
                               Mid(th[t].search.low, th[t].search.high),
                               "Buy to Open", r)),
                      !.search = s]
             g == IF SearchRunning(s) THEN f ELSE AfterSearch(f, s.max_successful)
         IN  /\ th' = [th EXCEPT ![t] = g]
             /\ last_successful_buy' =
                  IF Stamped(g) THEN Some(now) ELSE last_successful_buy
    /\ UNCHANGED <<session_token, session_valid, now>>
    /\ UNCHANGED hist

(***************************************************************************)
(* process_long_signal / process_short_signal: the close of one opposite   *)
(* position (its result is not looked at); after the last one the          *)
(* timestamp and the result.                                               *)
(***************************************************************************)
ClosePosition(t) ==
    /\ th[t].pc = "close_position"
    /\ \E r \in place_order(session_token, session_valid) :
         LET position == Head(th[t].todo)
             f == [th[t] EXCEPT
                      !.calls = Append(@,
                          Call("place_order", session_token,
                               OppositeSymbol(th[t].branch),
                               IntOfFloat(position.quantity),
                               ClosingAction(position.direction), r)),
                      !.todo = Tail(@)]
             g == IF f.todo # <<>> THEN f ELSE Bought(f)
         IN  /\ th' = [th EXCEPT ![t] = g]
             /\ last_successful_buy' =
                  IF Stamped(g) THEN Some(now) ELSE last_successful_buy
    /\ UNCHANGED <<session_token, session_valid, now>>
    /\ UNCHANGED hist

(***************************************************************************)
(* TradingLogic.close_positions called by a client of the class.           *)
(***************************************************************************)
ClosePositions(t) ==
    /\ RequestAdmitted(th, t)
    /\ \E symbols \in SymbolFilters :
         th' = [th EXCEPT ![t] =
                 [IdleFrame EXCEPT !.op = "close_positions", !.entry = "direct",
                                   !.pc = "cp_get_positions", !.symbols = symbols,
                                   !.entry_last_buy = last_successful_buy,
                                   !.entry_now = now]]
    /\ UNCHANGED <<session_token, session_valid, last_successful_buy, now>>
    /\ UNCHANGED hist

(***************************************************************************)
(* close_positions: the positions fetch, up to the first close.            *)
(***************************************************************************)
FetchToClose(t) ==
    /\ th[t].pc = "cp_get_positions"
    /\ \E r \in get_positions(session_token, session_valid) :
         LET positions == r.value
             f == [th[t] EXCEPT !.calls = Append(@,
                      Call("get_positions", session_token, "", 0, "", r))]
             g == [f EXCEPT !.positions = Fetched(positions),
                            !.todo = SkipUnmatched(f.symbols, Fetched(positions))]
         IN  th' = [th EXCEPT ![t] =
                 IF PositionsMissing(positions)
                 THEN Return(f, ErrorResult("Failed to get positions"))
                 ELSE IF Fetched(positions) = <<>>
                 THEN Return(g, NoPositionsResult)
                 ELSE IF g.todo = <<>>
                 THEN Return(g, ClosedResult(g.closed_positions))
                 ELSE [g EXCEPT !.pc = "cp_close_position"]]
    /\ UNCHANGED <<session_token, session_valid, last_successful_buy, now>>
    /\ UNCHANGED hist

(***************************************************************************)
(* close_positions: the close of one matching position, up to the next     *)
(* close or the return.                                                    *)
(***************************************************************************)
CloseMatching(t) ==
    /\ th[t].pc = "cp_close_position"
    /\ \E r \in place_order(session_token, session_valid) :
         LET result == r.value
             position == Head(th[t].todo)
             f == [th[t] EXCEPT
                      !.calls = Append(@,
                          Call("place_order", session_token, position.symbol,
                               IntOfFloat(position.quantity),
                               ClosingAction(position.direction), r)),
                      !.closed_positions =
                          AppendClosed(@, position.symbol, result),
                      !.todo = SkipUnmatched(th[t].symbols, Tail(@))]
         IN  th' = [th EXCEPT ![t] =
                 IF f.todo # <<>> THEN f
                 ELSE Return(f, ClosedResult(f.closed_positions))]
    /\ UNCHANGED <<session_token, session_valid, last_successful_buy, now>>
    /\ UNCHANGED hist

\* the steps of a signal or of close_positions running in thread t
Step(t) ==
    \/ GetAccountBalance(t)
    \/ GetPositions(t)
    \/ GetStockPrice(t)
    \/ PlaceBuyOrder(t)
    \/ ClosePosition(t)
    \/ FetchToClose(t)
    \/ CloseMatching(t)

(***************************************************************************)
(* The Signal Processor and its clients, one request at a time.            *)
(***************************************************************************)
Next ==
    \/ Tick
    \/ \E t \in Sequential :
         \/ Login(t)
         \/ ProcessSignal(t)
         \/ ClosePositions(t)
         \/ Step(t)

Spec == Init /\ [][Next]_vars

(***************************************************************************)
(* The session client and its clients: each method called on its own,      *)
(* with the session ending at any time.                                    *)
(***************************************************************************)
NextClient ==
    \/ Expire
    \/ \E t \in Sequential :
         \/ ClientLogin(t)
         \/ ClientCall(t)

SpecClient == Init /\ [][NextClient]_vars

(***************************************************************************)
(* The web application: the startup login, then webhook requests one at a  *)
(* time, with the session ending at any time.  The clock stands still.     *)
(***************************************************************************)
NextApp ==
    \/ Expire
    \/ \E t \in Sequential :
         \/ Login(t)
         \/ Webhook(t)
         \/ WebhookLogin(t)
         \/ Step(t)

SpecApp == Init /\ [][NextApp]_vars

(***************************************************************************)
(* The web application serving webhook requests in two threads at once.    *)
(* The clock stands still, and the brokerage is at its most obliging: the  *)
(* account is flat, every login is granted and every fetch is answered;    *)
(* only orders may be rejected.                                            *)
(***************************************************************************)
Obliging(f) ==
    /\ f.login # None => f.login[1].ok
    /\ f.positions = <<>>
    /\ \A i \in 1..Len(f.calls) :
         f.calls[i].method # "place_order" => f.calls[i].ok

AllObliging == \A t \in Threads : Obliging(th[t])

NextConc ==
    \/ \E t \in Sequential : Login(t) /\ AllObliging'
    \/ \E t \in Threads :
         \/ Webhook(t) /\ AllObliging'
         \/ WebhookLogin(t) /\ AllObliging'
         \/ GetAccountBalance(t) /\ AllObliging'
         \/ GetPositions(t) /\ AllObliging'
         \/ GetStockPrice(t) /\ AllObliging'
         \/ PlaceBuyOrder(t) /\ AllObliging'
         \/ FetchToClose(t) /\ AllObliging'

SpecConc == Init /\ [][NextConc]_vars

(***************************************************************************)
(* src/app.py: the call histories and the dashboard.  A record is the      *)
(* direction of the call, its timestamp and, in place of the identity of   *)
(* the Python dict, its number among the records of its direction.         *)
(***************************************************************************)
Record(direction, timestamp, id) ==
    [direction |-> direction, timestamp |-> timestamp, id |-> id]

\* the records the session client appends, one after the other, while a
\* request made at the time clock is served
RECURSIVE Outgoing(_, _, _)
Outgoing(history, clock, k) ==
    IF k = 0 THEN history
    ELSE Outgoing(Append(history, Record("outgoing", clock, Len(history) + 1)),
                  clock, k - 1)

(***************************************************************************)
(* webhook, as far as the histories go: api_calls.append(api_call), then   *)
(* the calls of the session client made for the request.                   *)
(***************************************************************************)
ReceiveWebhook ==
    /\ received < MaxRequests
    /\ received' = received + 1
    /\ api_calls' = Append(api_calls, Record("incoming", now, received + 1))
    /\ \E k \in 0..MaxCallsPerRequest :
         client_calls' = Outgoing(client_calls, now, k)
    /\ UNCHANGED <<session_token, session_valid, last_successful_buy, now, th,
                   displayed>>

\* list.sort(key=lambda x: x['timestamp'], reverse=True): descending by
\* timestamp, records with equal timestamps keeping their order
RECURSIVE InsertByTimestamp(_, _)
InsertByTimestamp(sorted, x) ==
    IF sorted = <<>> THEN <<x>>
    ELSE IF Head(sorted).timestamp >= x.timestamp
    THEN <<Head(sorted)>> \o InsertByTimestamp(Tail(sorted), x)
    ELSE <<x>> \o sorted

RECURSIVE SortByTimestamp(_)
SortByTimestamp(list) ==
    IF list = <<>> THEN <<>>
    ELSE InsertByTimestamp(SortByTimestamp(SubSeq(list, 1, Len(list) - 1)),
                           list[Len(list)])

(***************************************************************************)
(* dashboard: all_api_calls = api_calls names the list of the application  *)
(* itself, so += extends that list by the records of the session client    *)
(* and sort() sorts it, in place; the list is then displayed.              *)
(***************************************************************************)
Dashboard ==
    /\ Len(api_calls) <= MaxHistory
    /\ api_calls' = SortByTimestamp(api_calls \o client_calls)
    /\ displayed' = Some(api_calls')
    /\ UNCHANGED <<session_token, session_valid, last_successful_buy, now, th,
                   client_calls, received>>

NextDash ==
    \/ Tick
    \/ ReceiveWebhook
    \/ Dashboard

SpecDash == Init /\ [][NextDash]_vars

TypeOK ==
    /\ session_token \in {None, Some("token")}
    /\ session_valid \in BOOLEAN
    /\ now \in 0..MaxNow

(***************************************************************************)
(* Vocabulary of the properties: what an operation did, read off its       *)
(* frame.                                                                  *)
(***************************************************************************)
Returned(f) == f.pc = "idle" /\ f.result # None

IsOrder(c) == c.method = "place_order"
IsBuy(c) == c.method = "place_order" /\ c.action = "Buy to Open"
IsClose(c) == c.method = "place_order" /\ c.action # "Buy to Open"

Orders(f) == SelectSeq(f.calls, IsOrder)
BuyOrders(f) == SelectSeq(f.calls, IsBuy)
CloseOrders(f) == SelectSeq(f.calls, IsClose)

CallsOf(f, method) == SelectSeq(f.calls, LAMBDA c : c.method = method)

AcceptedBuy(f) == \E i \in 1..Len(f.calls) : IsBuy(f.calls[i]) /\ f.calls[i].ok

\* a fetch of the named method failed in the operation
FetchFailedIn(f, method) ==
    \E i \in 1..Len(f.calls) : f.calls[i].method = method /\ ~f.calls[i].ok

\* the operation was entered less than 12 hours after the last successful buy
EnteredInCooldown(f) ==
    /\ f.entry_last_buy # None
    /\ f.entry_now - f.entry_last_buy[1] < 12

\* C1: a valid signal arriving less than 12 hours after the last successful
\* buy is handled by close_positions(['MSTU', 'MSTZ']): the operation takes
\* neither buy branch, its first brokerage call is the positions fetch, every
\* order it places is a closing order for MSTU or MSTZ and none is a
\* 'Buy to Open', whatever the direction of the signal; its result is the
\* result of close_positions.
C1_CooldownClosesOnly ==
    \A t \in Threads :
      LET f == th[t]
      IN  (f.op = "process_signal" /\ f.signal \in {"long", "short"}
           /\ EnteredInCooldown(f))
          => /\ f.symbols = Some(<<"MSTU", "MSTZ">>)
             /\ f.branch = ""
             /\ f.pc \in {"cp_get_positions", "cp_close_position", "idle"}
             /\ BuyOrders(f) = <<>>
             /\ f.calls # <<>> => f.calls[1].method = "get_positions"
             /\ Len(CallsOf(f, "get_positions")) <= 1
             /\ \A i \in 1..Len(f.calls) :
                  f.calls[i].method \in {"get_positions", "place_order"}
             /\ \A i \in 1..Len(Orders(f)) :
                  /\ Orders(f)[i].symbol \in {"MSTU", "MSTZ"}
                  /\ Orders(f)[i].action \in {"Sell to Close", "Buy to Close"}
             /\ Returned(f) =>
                  /\ Len(CallsOf(f, "get_positions")) = 1
                  /\ f.result[1].quantity = None
                  /\ f.result[1].message \in
                       {"Failed to get positions", "No positions to close",
                        "Closed positions", "No matching positions found to close"}

\* a long signal in the cooldown was answered by closing an MSTZ position
C1_Witness ==
    \E t \in Threads :
      /\ th[t].op = "process_signal" /\ th[t].signal = "long"
      /\ EnteredInCooldown(th[t])
      /\ Returned(th[t])
      /\ \E i \in 1..Len(th[t].calls) :
           IsClose(th[t].calls[i]) /\ th[t].calls[i].symbol = "MSTZ"
                                    /\ th[t].calls[i].ok

\* C2: a signal outside {'long', 'short'} returns status error with the
\* message 'Invalid signal' at once, without any call of the session client,
\* and last_successful_buy is what it was when the signal arrived.
C2_InvalidSignal ==
    \A t \in Threads :
      LET f == th[t]
      IN  (f.op = "process_signal" /\ f.signal \notin {"long", "short"})
          => /\ Returned(f)
             /\ f.result[1].status = "error"
             /\ f.result[1].message = "Invalid signal"
             /\ f.calls = <<>>
             /\ last_successful_buy = f.entry_last_buy

\* an invalid signal arrived with a session token and a recorded buy
C2_Witness ==
    \E t \in Threads :
      /\ th[t].op = "process_signal" /\ th[t].signal = "hold"
      /\ session_token # None
      /\ th[t].entry_last_buy # None
      /\ Returned(th[t])

\* the step of thread t ends an operation
Returns(t) == th'[t] # th[t] /\ Returned(th'[t])

\* C3: last_successful_buy changes only in the step in which a
\* process_signal call returns after at least one accepted 'Buy to Open'
\* order; every such call returns status success with a quantity and leaves
\* last_successful_buy at the time of its return, whether its close orders
\* were accepted or not; a returning call without an accepted buy leaves it
\* alone; and once set it is never unset.
C3_LastBuyUpdate ==
    [][ /\ last_successful_buy' # last_successful_buy
          => \E t \in Threads :
               /\ Returns(t)
               /\ th'[t].op = "process_signal"
               /\ AcceptedBuy(th'[t])
        /\ \A t \in Threads :
             (Returns(t) /\ AcceptedBuy(th'[t]))
             => /\ last_successful_buy' = Some(now')
                /\ th'[t].result[1].status = "success"
                /\ th'[t].result[1].quantity # None
                /\ th'[t].result[1].quantity[1] > 0
        /\ \A t \in Threads :
             (Returns(t) /\ ~AcceptedBuy(th'[t]))
             => /\ last_successful_buy' = last_successful_buy
                /\ th'[t].result[1].quantity = None
        /\ last_successful_buy # None => last_successful_buy' # None
      ]_vars

\* a buy was recorded although a close order after it was rejected
C3_Witness ==
    \E t \in Threads :
      /\ Returned(th[t]) /\ AcceptedBuy(th[t])
      /\ \E i \in 1..Len(th[t].calls) :
           IsClose(th[t].calls[i]) /\ ~th[t].calls[i].ok
      /\ last_successful_buy = Some(now)
      /\ th[t].entry_last_buy # last_successful_buy

\* C4: when the balance fetch or the positions fetch of the long or short
\* branch fails, the call has returned an error result, has fetched the
\* failed item exactly once, has placed no order and asked for no quote, and
\* last_successful_buy is what it was when the signal arrived.
C4_FetchFailureAborts ==
    \A t \in Threads :
      LET f == th[t]
      IN  (f.op = "process_signal" /\ f.branch # ""
           /\ (FetchFailedIn(f, "get_account_balance")
               \/ FetchFailedIn(f, "get_positions")))
          => /\ Returned(f)
             /\ f.result[1].status = "error"
             /\ f.result[1].message =
                  IF FetchFailedIn(f, "get_account_balance")
                  THEN "Failed to get account balance"
                  ELSE "Failed to get positions"
             /\ Orders(f) = <<>>
             /\ CallsOf(f, "get_stock_price") = <<>>
             /\ Len(CallsOf(f, "get_account_balance")) = 1
             /\ Len(CallsOf(f, "get_positions")) <= 1
             /\ ~f.calls[Len(f.calls)].ok
             /\ last_successful_buy = f.entry_last_buy

\* the positions fetch failed after the balance was fetched, with a session
\* token, outside the cooldown of an earlier buy
C4_Witness ==
    \E t \in Threads :
      /\ th[t].op = "process_signal" /\ th[t].branch = "short"
      /\ session_token # None
      /\ th[t].entry_last_buy # None
      /\ FetchFailedIn(th[t], "get_positions")
      /\ Returned(th[t])

\* every order of the operation was accepted
AllOrdersAccepted(f) == \A i \in 1..Len(f.calls) : IsOrder(f.calls[i]) => f.calls[i].ok

\* the cash the claim calls spendable, in half-dollars: all of the available
\* cash when the fetched list has a position, half of it when it has none
Spendable(f) ==
    IF Len(f.positions) > 0 THEN f.cash_available ELSE f.cash_available \div 2

\* C5: outside the cooldown, when the brokerage accepted every order, the
\* quantity of the success result is floor(spendable cash / price): the
\* largest q with q * price <= spendable cash, the spendable cash being the
\* available cash if positions were fetched and half of it if none was.
C5_QuantityIsFloor ==
    \A t \in Threads :
      LET f == th[t]
      IN  (f.op = "process_signal" /\ f.branch # "" /\ Returned(f)
           /\ f.result[1].status = "success" /\ AllOrdersAccepted(f))
          => /\ f.result[1].quantity # None
             /\ f.result[1].symbol = Some(IF f.signal = "long" THEN "MSTU" ELSE "MSTZ")
             /\ LET q == f.result[1].quantity[1]
                IN  /\ q * f.price[1] <= Spendable(f)
                    /\ (q + 1) * f.price[1] > Spendable(f)

\* 3 dollars, no position, price 1: 1.5 dollars are spendable, 1 share
C5_Witness ==
    \E t \in Threads :
      /\ th[t].op = "process_signal" /\ th[t].branch = "long" /\ Returned(th[t])
      /\ th[t].result[1].status = "success" /\ AllOrdersAccepted(th[t])
      /\ th[t].cash_available = 6 /\ th[t].positions = <<>>
      /\ th[t].price = Some(2)
      /\ th[t].result[1].quantity = Some(1)

\* the symbol opposite to the signal of the operation
Opposing(f) == IF f.signal = "long" THEN "MSTZ" ELSE "MSTU"

\* the positions of the opposite proxy among those fetched before the buy
PreExistingOpposing(f) ==
    SelectSeq(f.positions, LAMBDA p : p.symbol = Opposing(f))

\* the long or short branch bought with an opposing position in the account
BoughtAgainstOpposing(f) ==
    /\ f.op = "process_signal" /\ f.branch # "" /\ Returned(f)
    /\ f.result[1].status = "success"
    /\ PreExistingOpposing(f) # <<>>

\* every close order comes after every 'Buy to Open' order
ClosesFollowBuys(f) ==
    \A i, j \in 1..Len(f.calls) :
      (IsBuy(f.calls[i]) /\ IsClose(f.calls[j])) => i < j

\* C6 as stated: after a successful buy with pre-existing opposing
\* positions, the close orders are, one for one and after the buy, the
\* opposite-proxy positions, each order with the quantity of its position.
C6_Original ==
    \A t \in Threads :
      LET f == th[t]
      IN  BoughtAgainstOpposing(f)
          => /\ ClosesFollowBuys(f)
             /\ Len(CloseOrders(f)) = Len(PreExistingOpposing(f))
             /\ \A i \in 1..Len(CloseOrders(f)) :
                  /\ CloseOrders(f)[i].symbol = Opposing(f)
                  /\ 2 * CloseOrders(f)[i].quantity = PreExistingOpposing(f)[i].quantity

\* C6 (amended): after a successful buy with pre-existing opposing
\* positions, the close orders are, one for one and after the buy, the
\* opposite-proxy positions, each order with the quantity of its position
\* truncated to a whole number of shares; no position of another symbol gets
\* an order.
C6_ClosesOpposing ==
    \A t \in Threads :
      LET f == th[t]
      IN  BoughtAgainstOpposing(f)
          => /\ ClosesFollowBuys(f)
             /\ Len(CloseOrders(f)) = Len(PreExistingOpposing(f))
             /\ \A i \in 1..Len(CloseOrders(f)) :
                  LET c == CloseOrders(f)[i]
                      p == PreExistingOpposing(f)[i]
                  IN  /\ c.symbol = Opposing(f)
                      /\ c.sent
                      /\ 2 * c.quantity <= p.quantity
                      /\ p.quantity < 2 * (c.quantity + 1)
                      /\ c.action = IF p.direction = "Long" THEN "Sell to Close"
                                    ELSE "Buy to Close"

\* a long buy with a 2.5-share MSTZ position and an AAPL position: one close
\* order, for 2 shares of MSTZ
C6_Witness ==
    \E t \in Threads :
      /\ BoughtAgainstOpposing(th[t]) /\ th[t].signal = "long"
      /\ Len(th[t].positions) = 2
      /\ th[t].positions[1].symbol = "AAPL"
      /\ th[t].positions[2] = [symbol |-> "MSTZ", quantity |-> 5, direction |-> "Long"]
      /\ Len(CloseOrders(th[t])) = 1
      /\ CloseOrders(th[t])[1].quantity = 2

\* the binary search of the operation has run and is over
SearchOver(f) ==
    /\ f.op = "process_signal" /\ f.branch # ""
    /\ f.theoretical_max >= 1
    /\ f.pc # "place_order"

\* the brokerage answered the buy orders as one that accepts a quantity
\* exactly when it is at most limit
AcceptsUpTo(f, limit) ==
    \A i \in 1..Len(f.calls) :
      IsBuy(f.calls[i]) => (f.calls[i].ok <=> f.calls[i].quantity <= limit)

\* C7: when the brokerage accepted the 'Buy to Open' orders exactly up to a
\* threshold, the binary search over 1..m returned min(threshold, m).
C7_SearchFindsThreshold ==
    \A t \in Threads :
      LET f == th[t]
      IN  SearchOver(f)
          => \A limit \in 0..(f.theoretical_max + 1) :
               AcceptsUpTo(f, limit)
               => f.search.max_successful =
                    IF limit < f.theoretical_max THEN limit ELSE f.theoretical_max

\* with m >= 4 and a brokerage accepting up to 3 shares the search ends at
\* 3, after accepted and rejected probes
C7_Witness ==
    \E t \in Threads :
      /\ SearchOver(th[t]) /\ th[t].theoretical_max >= 4
      /\ AcceptsUpTo(th[t], 3)
      /\ th[t].search.max_successful = 3
      /\ Len(BuyOrders(th[t])) = 3

\* the symbol passes the filter of the operation
InFilter(f, symbol) ==
    \/ f.symbols = None
    \/ f.symbols[1] = <<>>
    \/ \E i \in 1..Len(f.symbols[1]) : f.symbols[1][i] = symbol

\* close_positions(['MSTZ']) has returned after fetching positions none of
\* which is an MSTZ position
ClosedMSTZWithoutAny(f) ==
    /\ f.op = "close_positions" /\ f.symbols = Some(<<"MSTZ">>)
    /\ Returned(f)
    /\ ~FetchFailedIn(f, "get_positions")
    /\ \A i \in 1..Len(f.positions) : f.positions[i].symbol # "MSTZ"

\* C8 as stated: whenever no MSTZ position exists, the empty account
\* included, close_positions(['MSTZ']) returns success with the message
\* 'No matching positions found to close' after the positions fetch alone.
C8_Original ==
    \A t \in Threads :
      LET f == th[t]
      IN  ClosedMSTZWithoutAny(f)
          => /\ f.result[1].status = "success"
             /\ f.result[1].message = "No matching positions found to close"
             /\ Len(f.calls) = 1

\* C8 (amended): whenever the fetched positions hold no MSTZ position,
\* close_positions(['MSTZ']) returns success after the positions fetch alone,
\* with the message 'No matching positions found to close' if some position
\* exists and 'No positions to close' if none does; the result depends on
\* nothing but the fetched list, so a repeated call gives it again.
C8_NoMatchIsSuccess ==
    \A t \in Threads :
      LET f == th[t]
      IN  ClosedMSTZWithoutAny(f)
          => /\ f.result[1].status = "success"
             /\ f.result[1].message =
                  IF f.positions = <<>> THEN "No positions to close"
                  ELSE "No matching positions found to close"
             /\ f.result[1].closed_positions = None
             /\ Len(f.calls) = 1
             /\ f.calls[1].method = "get_positions"
             /\ last_successful_buy = f.entry_last_buy

\* close_positions(['MSTZ']) on an account holding MSTU and AAPL only
C8_Witness ==
    \E t \in Threads :
      /\ ClosedMSTZWithoutAny(th[t])
      /\ Len(th[t].positions) = 2
      /\ th[t].positions[1].symbol = "MSTU"
      /\ th[t].positions[2].symbol = "AAPL"
      /\ th[t].result[1].message = "No matching positions found to close"

\* the cooldown state: a buy succeeded less than 12 hours before the clock
CoolingDown(last_buy, clock) == last_buy # None /\ clock - last_buy[1] < 12

\* C9: the processor starts cooled down; last_successful_buy is written
\* exactly by the return of a call that bought, which starts a cooldown; a
\* cooldown ends by the clock only; a valid signal is dispatched to its buy
\* branch when no cooldown holds (no buy yet, or 12 hours or more since the
\* last one) and to close_positions when one holds; and the close-only
\* processing leaves last_successful_buy alone.
C9_CooldownMachine ==
    /\ last_successful_buy = None
    /\ [][ /\ last_successful_buy' # last_successful_buy
             => \E t \in Threads : Returns(t) /\ AcceptedBuy(th'[t])
           /\ \A t \in Threads :
                (Returns(t) /\ AcceptedBuy(th'[t]))
                => /\ last_successful_buy' = Some(now')
                   /\ CoolingDown(last_successful_buy', now')
           /\ (CoolingDown(last_successful_buy, now)
               /\ ~CoolingDown(last_successful_buy', now'))
              => /\ now' >= last_successful_buy[1] + 12
                 /\ now' > now
                 /\ last_successful_buy' = last_successful_buy
           /\ \A t \in Threads :
                (th[t].pc = "idle" /\ th'[t].pc # "idle"
                 /\ th'[t].op = "process_signal")
                => IF CoolingDown(last_successful_buy, now)
                   THEN th'[t].pc = "cp_get_positions" /\ th'[t].branch = ""
                   ELSE /\ th'[t].pc = "get_account_balance"
                        /\ th'[t].branch = th'[t].signal
           /\ \A t \in Threads :
                th[t].pc \in {"cp_get_positions", "cp_close_position"}
                => last_successful_buy' = last_successful_buy
         ]_vars

\* a short signal exactly 12 hours after a buy bought again
C9_Witness ==
    \E t \in Threads :
      /\ th[t].op = "process_signal" /\ th[t].signal = "short"
      /\ th[t].branch = "short"
      /\ th[t].entry_last_buy # None
      /\ th[t].entry_now - th[t].entry_last_buy[1] = 12
      /\ Returned(th[t]) /\ AcceptedBuy(th[t])
      /\ last_successful_buy = Some(th[t].entry_now)

\* the operation runs close_positions (called directly or in the cooldown)
\* and has fetched a non-empty list of positions
ClosingRun(f) ==
    /\ f.op \in {"close_positions", "process_signal"}
    /\ f.symbols # None \/ f.op = "close_positions"
    /\ f.branch = ""
    /\ f.positions # <<>>

\* the fetched positions that pass the filter
Matched(f) == SelectSeq(f.positions, LAMBDA p : InFilter(f, p.symbol))

AcceptedOrders(f) == SelectSeq(f.calls, LAMBDA c : IsOrder(c) /\ c.ok)

\* C10: close_positions places its close orders one for one on the matched
\* positions in their order, so a rejected close is attempted once and the
\* closes after it are still attempted; the call returns success, and its
\* closed_positions are the symbols of the accepted closes in their order
\* (the key is left out when no close was accepted).
C10_RejectedCloseSkipped ==
    \A t \in Threads :
      LET f == th[t]
      IN  ClosingRun(f)
          => /\ Len(Orders(f)) <= Len(Matched(f))
             /\ \A i \in 1..Len(Orders(f)) :
                  /\ Orders(f)[i].symbol = Matched(f)[i].symbol
                  /\ IsClose(Orders(f)[i])
             /\ Len(CallsOf(f, "get_positions")) = 1
             /\ Returned(f)
                => /\ Len(Orders(f)) = Len(Matched(f))
                   /\ f.result[1].status = "success"
                   /\ IF AcceptedOrders(f) = <<>>
                      THEN f.result[1].closed_positions = None
                      ELSE f.result[1].closed_positions =
                             Some([i \in 1..Len(AcceptedOrders(f)) |->
                                     AcceptedOrders(f)[i].symbol])

\* a rejected close of MSTU was followed by an accepted close of MSTZ, and
\* the result lists MSTZ alone
C10_Witness ==
    \E t \in Threads :
      /\ ClosingRun(th[t]) /\ Returned(th[t])
      /\ Len(Orders(th[t])) = 2
      /\ Orders(th[t])[1].symbol = "MSTU" /\ ~Orders(th[t])[1].ok
      /\ Orders(th[t])[2].symbol = "MSTZ" /\ Orders(th[t])[2].ok
      /\ th[t].result[1].closed_positions = Some(<<"MSTZ">>)

\* C11: close_positions places its orders on exactly the fetched positions
\* whose symbol passes the filter, one order each in the order of the list,
\* for the symbol, the truncated quantity and the closing action of the
\* position; a null or empty filter passes every position, and a position
\* outside the filter gets no order.
C11_FilterSelectsCloses ==
    \A t \in Threads :
      LET f == th[t]
      IN  (ClosingRun(f) /\ Returned(f))
          => /\ Len(Orders(f)) = Len(Matched(f))
             /\ \A i \in 1..Len(Orders(f)) :
                  LET c == Orders(f)[i]
                      p == Matched(f)[i]
                  IN  /\ c.symbol = p.symbol
                      /\ 2 * c.quantity <= p.quantity
                      /\ p.quantity < 2 * (c.quantity + 1)
                      /\ c.action = IF p.direction = "Long" THEN "Sell to Close"
                                    ELSE "Buy to Close"
             /\ (f.symbols = None \/ f.symbols = Some(<<>>))
                => Len(Orders(f)) = Len(f.positions)
             /\ (f.symbols # None /\ f.symbols # Some(<<>>))
                => \A i \in 1..Len(Orders(f)) :
                     \E j \in 1..Len(f.symbols[1]) :
                       f.symbols[1][j] = Orders(f)[i].symbol

\* a cooldown close on an account holding AAPL and MSTU closed MSTU alone
C11_Witness ==
    \E t \in Threads :
      /\ ClosingRun(th[t]) /\ Returned(th[t])
      /\ th[t].op = "process_signal"
      /\ Len(th[t].positions) = 2
      /\ th[t].positions[1].symbol = "AAPL"
      /\ th[t].positions[2].symbol = "MSTU"
      /\ Len(Orders(th[t])) = 1
      /\ Orders(th[t])[1].symbol = "MSTU"

\* C12: every order an operation sends to the brokerage (a buy probe, a
\* close after a buy, a close of close_positions) has a quantity of at least
\* one share.
C12_PositiveQuantity ==
    \A t \in Threads :
      \A i \in 1..Len(th[t].calls) :
        (IsOrder(th[t].calls[i]) /\ th[t].calls[i].sent)
        => th[t].calls[i].quantity >= 1

\* every call of the session client an operation made: the login of the
\* request, if any, then the account-scoped calls
CallsMade(f) == (IF f.login = None THEN <<>> ELSE f.login) \o f.calls

\* the records the call appended to the call history
Records(c) == Len(c.log)

\* C13: every call of the session client that goes out to the brokerage
\* (login, get_account_balance, get_positions, get_stock_price, place_order),
\* whether it succeeds or fails and also when a 2xx response lacks the
\* expected fields, appends exactly one record to the call history.
C13_OneRecordPerCall ==
    \A t \in Threads :
      \A i \in 1..Len(CallsMade(th[t])) :
        CallsMade(th[t])[i].sent => Records(CallsMade(th[t])[i]) = 1

\* the step is a login made in thread t
LoggedInBy(t) == th'[t].login # None /\ th'[t].login # th[t].login

\* the sessions request got a successful response carrying the token
TokenGranted(c) == c.http = "2xx" /\ c.body = "token"

\* C14: login returns true and stores the token only on a successful (2xx)
\* response that carries the token; on a transport failure, a non-2xx status
\* whatever the body holds, a malformed body or a body without the token it
\* returns false, appends one error record and leaves the stored token as
\* it was.
C14_LoginContract ==
    [][\A t \in Threads :
         LoggedInBy(t) =>
           LET c == th'[t].login[1]
           IN  IF TokenGranted(c)
               THEN c.ok /\ session_token' = Some("token")
               ELSE ~c.ok /\ c.log = <<"error">> /\ session_token' = session_token]_vars

\* the last operation of the thread was a call of a method of the session
\* client that needs a token, made with no token stored
CalledWithoutToken(f) == f.op = "client" /\ f.calls[1].token = None

\* C15: with no session token stored, get_account_balance, get_positions,
\* get_stock_price, place_order and close_position return null at once:
\* nothing is sent to the brokerage, nothing is recorded, no login is
\* attempted and the token stays absent; and no account-scoped request ever
\* goes out that was made without a token.
C15_NoTokenNoRequest ==
    \A t \in Threads :
      /\ CalledWithoutToken(th[t])
         => /\ th[t].result = Some(None)
            /\ th[t].login = None
            /\ session_token = None
            /\ \A i \in 1..Len(th[t].calls) :
                 ~th[t].calls[i].sent /\ Records(th[t].calls[i]) = 0
      /\ \A i \in 1..Len(th[t].calls) :
           th[t].calls[i].sent => th[t].calls[i].token # None

\* close_position was called with no token stored and returned null
C15_Witness ==
    \E t \in Threads :
      /\ th[t].op = "client" /\ th[t].entry = "close_position"
      /\ th[t].calls[1].token = None
      /\ th[t].calls[1].action = "Sell to Close"
      /\ th[t].result = Some(None)
      /\ session_token = None

\* a call of the operation was refused by the brokerage for its token
AuthFailed(f) ==
    \E i \in 1..Len(f.calls) : f.calls[i].sent /\ f.calls[i].http = "401"

\* the step is thread t taking a webhook request that goes on to the
\* brokerage
WebhookTakenBy(t) ==
    /\ th[t].pc = "idle"
    /\ th'[t].pc # "idle"
    /\ th'[t].entry = "webhook"
    /\ CallsMade(th'[t]) = <<>>

\* C16: after a brokerage call failed with an authentication error (the
\* stored token is no longer accepted), the next webhook signal triggers a
\* login before its signal is processed.
C16_ReloginAfterAuthError ==
    [][\A t \in Threads :
         (WebhookTakenBy(t) /\ AuthFailed(th[t])) => th'[t].pc = "wh_login"]_vars

\* the request came in through the webhook
ViaWebhook(f) == f.entry = "webhook"

\* the login the webhook made for the request failed
LoginRefused(f) == f.login # None /\ ~f.login[1].ok

\* C17: the webhook calls process_signal only while the session client
\* holds a token: it logs in first if (and only if) no token is stored, and
\* when that login fails it returns the error 'Authentication failed'
\* without calling process_signal, so the request makes no balance,
\* positions, quote or order call.
C17_AuthenticatedBeforeSignal ==
    \A t \in Threads :
      ViaWebhook(th[t]) =>
        /\ th[t].op = "process_signal" => session_token # None
        /\ th[t].login # None => th[t].login[1].token = None
        /\ th[t].calls # <<>> => th[t].op = "process_signal"
        /\ LoginRefused(th[t])
           => /\ Returned(th[t])
              /\ th[t].result = Some(ErrorResult("Authentication failed"))
              /\ th[t].op = "webhook"
              /\ th[t].calls = <<>>

\* a webhook request with a valid signal found no token, its login failed
\* and it returned the error having made no other call
C17_Witness ==
    \E t \in Threads :
      /\ ViaWebhook(th[t]) /\ LoginRefused(th[t])
      /\ th[t].signal = "long"
      /\ th[t].result = Some(ErrorResult("Authentication failed"))
      /\ th[t].calls = <<>>
      /\ session_token = None

\* the branch got a price and the quantity computed from the spendable cash
\* and the price is not positive
NothingAffordable(f) ==
    /\ f.op = "process_signal"
    /\ CallsOf(f, "get_stock_price") # <<>>
    /\ ~PriceInvalid(f.price)
    /\ TheoreticalMax(f.max_cash, f.price[1]) <= 0

\* C18: in the long/short branch, if the quantity computed from the
\* spendable cash and the price is <= 0, the operation fails with the
\* message 'not enough cash', places no order and does not advance
\* last_successful_buy.
C18_NotEnoughCash ==
    \A t \in Threads :
      (NothingAffordable(th[t]) /\ Returned(th[t]))
      => /\ th[t].result[1].status = "error"
         /\ th[t].result[1].message = "not enough cash"
         /\ Orders(th[t]) = <<>>
         /\ last_successful_buy = th[t].entry_last_buy

\* the branch asked for the price of its target and got none, or one that
\* is not positive
PricingFailed(f) ==
    /\ f.op = "process_signal"
    /\ CallsOf(f, "get_stock_price") # <<>>
    /\ PriceInvalid(f.price)

\* C19: if the price fetch for the target symbol fails (null) or yields a
\* non-positive price, the long/short branch returns an error result at
\* once: no 'Buy to Open' order and no close order is placed, and
\* last_successful_buy is not advanced.
C19_PricingFailureAborts ==
    \A t \in Threads :
      PricingFailed(th[t])
      => /\ Returned(th[t])
         /\ th[t].result = Some(ErrorResult(FailedToBuy(th[t].branch)))
         /\ Orders(th[t]) = <<>>
         /\ Len(th[t].calls) = 3
         /\ last_successful_buy = th[t].entry_last_buy

\* a long signal on an account holding the opposite proxy got no price and
\* returned the error with the position left alone
C19_Witness ==
    \E t \in Threads :
      /\ PricingFailed(th[t]) /\ Returned(th[t])
      /\ th[t].branch = "long"
      /\ th[t].price = None
      /\ PreExistingOpposing(th[t]) # <<>>
      /\ Orders(th[t]) = <<>>

\* the request passed the cooldown check and took the long or short branch
PassedCooldownCheck(f) == f.op = "process_signal" /\ f.branch # ""

\* C20: process_signal is not safe for concurrent entry.  The webhook takes
\* a request in any idle thread, whatever the other threads are doing, and
\* a request takes the long or short branch on the last_successful_buy it
\* read at its entry alone; so two valid signals arriving together in the
\* COOLED_DOWN state can both pass the check and both have a 'Buy to Open'
\* order accepted, the second buy not being held back by the cooldown the
\* first one starts.
C20_ConcurrentEntry ==
    \A t \in Threads :
      /\ th[t].pc = "idle" => ENABLED Webhook(t)
      /\ PassedCooldownCheck(th[t])
         <=> /\ th[t].op = "process_signal"
             /\ ValidSignal(th[t].signal)
             /\ ~InCooldown(th[t].entry_last_buy, th[t].entry_now)

\* two webhook requests with valid signals both entered with no buy behind
\* them and both returned a purchase
C20_Witness ==
    /\ \A t \in Threads :
         /\ ViaWebhook(th[t]) /\ PassedCooldownCheck(th[t])
         /\ th[t].entry_last_buy = None
         /\ AcceptedBuy(th[t])
         /\ Returned(th[t])
         /\ th[t].result[1].status = "success"
    /\ th[1].signal = "long" /\ th[2].signal = "long"
    /\ last_successful_buy # None

\* close_position was called with a token stored
ClosedByClient(f) ==
    f.op = "client" /\ f.entry = "close_position" /\ f.calls[1].token # None

\* C21: close_position(symbol, quantity, direction), called with a token
\* stored, submits exactly one order through place_order, for the same
\* symbol and quantity, with action 'Sell to Close' when the direction is
\* 'Long' and 'Buy to Close' for every other direction; called with or
\* without a token it never submits an opening action.
C21_CloseDerivesAction ==
    \A t \in Threads :
      /\ ClosedByClient(th[t])
         => /\ Len(th[t].calls) = 1
            /\ IsOrder(th[t].calls[1]) /\ th[t].calls[1].sent
            /\ th[t].calls[1].symbol = th[t].args[1].symbol
            /\ th[t].calls[1].quantity = th[t].args[1].quantity
            /\ th[t].calls[1].action =
                 IF th[t].args[1].direction = "Long" THEN "Sell to Close"
                 ELSE "Buy to Close"
      /\ (th[t].op = "client" /\ th[t].entry = "close_position")
         => \A i \in 1..Len(th[t].calls) :
              th[t].calls[i].action \in {"Sell to Close", "Buy to Close"}

\* close_position closed a short position of two shares of MSTZ with one
\* accepted 'Buy to Close' order
C21_Witness ==
    \E t \in Threads :
      /\ ClosedByClient(th[t])
      /\ th[t].args = Some([symbol |-> "MSTZ", quantity |-> 2, direction |-> "Short"])
      /\ th[t].calls[1].action = "Buy to Close"
      /\ th[t].calls[1].quantity = 2
      /\ th[t].calls[1].ok

\* the step is a login by thread t that returned true
LoginSucceededBy(t) == LoggedInBy(t) /\ th'[t].login[1].ok

\* C22: the session token is modified only by a successful login: a failed
\* login, every balance, positions, quote and order call whether it succeeds
\* or fails, and every operation of the Signal Processor leave the stored
\* token unchanged.
C22_TokenFrame ==
    [][session_token' # session_token
       => \E t \in Threads : LoginSucceededBy(t)]_vars

\* a webhook request logged in, and the token it stored is still there
\* after a fetch of the request was refused
C22_Witness ==
    \E t \in Threads :
      /\ ViaWebhook(th[t])
      /\ th[t].login # None /\ th[t].login[1].ok
      /\ AuthFailed(th[t])
      /\ Returned(th[t])
      /\ session_token = Some("token")

\* every 'Buy to Open' order of the operation was rejected
EveryBuyRejected(f) ==
    /\ BuyOrders(f) # <<>>
    /\ \A i \in 1..Len(BuyOrders(f)) : ~BuyOrders(f)[i].ok

\* C23: within one execution of the long or short branch every 'Buy to
\* Open' order precedes every close order; close orders are issued only if
\* a buy was accepted and positions existed before the buy; if every buy
\* probe is rejected the call returns an error with no close order, the
\* opposing positions being left alone; and no close order is for the symbol
\* the branch buys.
C23_BuysThenCloses ==
    \A t \in Threads :
      LET f == th[t]
      IN  PassedCooldownCheck(f)
          => /\ ClosesFollowBuys(f)
             /\ CloseOrders(f) # <<>> => (AcceptedBuy(f) /\ f.positions # <<>>)
             /\ (EveryBuyRejected(f) /\ f.pc # "place_order")
                => /\ Returned(f)
                   /\ f.result[1].status = "error"
                   /\ CloseOrders(f) = <<>>
             /\ \A i, j \in 1..Len(f.calls) :
                  (IsBuy(f.calls[i]) /\ IsClose(f.calls[j]))
                  => f.calls[i].symbol # f.calls[j].symbol

\* a long signal on an account holding MSTZ had two buy probes rejected and
\* returned the error without a close order
C23_Witness ==
    \E t \in Threads :
      /\ PassedCooldownCheck(th[t]) /\ th[t].branch = "long"
      /\ PreExistingOpposing(th[t]) # <<>>
      /\ EveryBuyRejected(th[t]) /\ Len(BuyOrders(th[t])) >= 2
      /\ Returned(th[t])
      /\ CloseOrders(th[t]) = <<>>

\* floor(log2(n)) for n >= 1
RECURSIVE FloorLog2(_)
FloorLog2(n) == IF n <= 1 THEN 0 ELSE 1 + FloorLog2(n \div 2)

\* how many calls of the method the operation made
Fetches(f, method) == Len(CallsOf(f, method))

\* C24: whatever the brokerage answers to the orders, the binary search
\* over 1..m (m >= 1) is over after at most floor(log2(m)) + 1 'Buy to
\* Open' orders, each for a quantity in 1..m; and one process_signal call
\* makes at most one balance fetch, one positions fetch and one quote fetch.
C24_BoundedCalls ==
    \A t \in Threads :
      LET f == th[t]
      IN  f.op = "process_signal"
          => /\ Fetches(f, "get_account_balance") <= 1
             /\ Fetches(f, "get_positions") <= 1
             /\ Fetches(f, "get_stock_price") <= 1
             /\ BuyOrders(f) # <<>> => f.theoretical_max >= 1
             /\ Len(BuyOrders(f)) <= FloorLog2(f.theoretical_max) + 1
             /\ \A i \in 1..Len(BuyOrders(f)) :
                  /\ BuyOrders(f)[i].quantity >= 1
                  /\ BuyOrders(f)[i].quantity <= f.theoretical_max
             /\ Len(BuyOrders(f)) = FloorLog2(f.theoretical_max) + 1
                => f.pc # "place_order"

\* a search over 1..m with m >= 4 that took all its floor(log2(m)) + 1
\* probes, the last ones rejected
C24_Witness ==
    \E t \in Threads :
      /\ SearchOver(th[t]) /\ th[t].theoretical_max >= 4
      /\ Len(BuyOrders(th[t])) = FloorLog2(th[t].theoretical_max) + 1
      /\ BuyOrders(th[t])[1].ok
      /\ ~BuyOrders(th[t])[Len(BuyOrders(th[t]))].ok

\* binary_search_max_quantity has returned in the operation
SearchReturned(f) ==
    /\ PassedCooldownCheck(f)
    /\ Fetches(f, "get_stock_price") = 1
    /\ f.pc # "place_order"

\* the quantities of the accepted 'Buy to Open' orders
AcceptedQuantities(f) ==
    { f.calls[i].quantity : i \in { k \in 1..Len(f.calls) :
                                      IsBuy(f.calls[k]) /\ f.calls[k].ok } }

\* the largest of them, 0 if there is none
LargestAccepted(f) ==
    CHOOSE q \in AcceptedQuantities(f) \cup {0} :
      \A r \in AcceptedQuantities(f) : r <= q

\* the quantity of the last accepted 'Buy to Open' order, 0 if there is none
RECURSIVE LastAccepted(_)
LastAccepted(orders) ==
    IF orders = <<>> THEN 0
    ELSE IF orders[Len(orders)].ok THEN orders[Len(orders)].quantity
    ELSE LastAccepted(SubSeq(orders, 1, Len(orders) - 1))

\* C25: whatever the brokerage answers, a rejected probe ends the search
\* only when no smaller untried quantity remains (it is followed by a probe
\* for a smaller quantity, or it was for one share more than the largest
\* accepted quantity), and binary_search_max_quantity returns the quantity
\* of the last accepted probe, which is the largest accepted quantity; it
\* returns 0 exactly when every probe was rejected or none was placed.
C25_SearchResult ==
    \A t \in Threads :
      LET f == th[t]
          probes == BuyOrders(f)
      IN  SearchReturned(f)
          => /\ f.quantity = LastAccepted(probes)
             /\ f.quantity = LargestAccepted(f)
             /\ f.quantity = 0 <=> ~AcceptedBuy(f)
             /\ \A i \in 1..Len(probes) :
                  ~probes[i].ok
                  => IF i < Len(probes)
                     THEN probes[i + 1].quantity < probes[i].quantity
                     ELSE probes[i].quantity = LargestAccepted(f) + 1

\* with m >= 4 the first probe was rejected, the search went on to a smaller
\* quantity, which was accepted, and returned it
C25_Witness ==
    \E t \in Threads :
      /\ SearchReturned(th[t]) /\ th[t].theoretical_max >= 4
      /\ Len(BuyOrders(th[t])) >= 2
      /\ ~BuyOrders(th[t])[1].ok
      /\ BuyOrders(th[t])[Len(BuyOrders(th[t]))].ok
      /\ th[t].quantity >= 1
      /\ th[t].quantity < BuyOrders(th[t])[1].quantity

\* the shares the operation bought: the sum of the quantities of its
\* accepted 'Buy to Open' orders
RECURSIVE SharesBought(_)
SharesBought(orders) ==
    IF orders = <<>> THEN 0
    ELSE (IF IsBuy(Head(orders)) /\ Head(orders).ok THEN Head(orders).quantity ELSE 0)
         + SharesBought(Tail(orders))

\* C26: in one process_signal call the total number of shares bought (the
\* sum of the quantities of all accepted 'Buy to Open' orders) equals the
\* quantity of the success result and is at most floor(spendable cash /
\* price), so the call never commits more than the spendable cash.
C26_TotalBought ==
    \A t \in Threads :
      LET f == th[t]
      IN  (PassedCooldownCheck(f) /\ Returned(f) /\ f.result[1].status = "success")
          => /\ SharesBought(f.calls) = f.result[1].quantity[1]
             /\ SharesBought(f.calls) * f.price[1] <= Spendable(f)

\* C27: rendering the dashboard leaves the call histories as they were:
\* whatever renders and webhook requests came before, the incoming-call
\* list of the webhook layer holds exactly one record per webhook request
\* received, in the order of arrival, and no recorded call appears twice in
\* the list that is displayed.
C27_DashboardReadOnly ==
    /\ Len(api_calls) = received
    /\ \A i \in 1..Len(api_calls) :
         api_calls[i].direction = "incoming" /\ api_calls[i].id = i
    /\ displayed # None
       => \A i, j \in 1..Len(displayed[1]) :
            displayed[1][i] = displayed[1][j] => i = j

====
